---- MODULE Spec2Model ----
(***************************************************************************)
(* A model of solar-noon (src/main.ts): the response cache kept in         *)
(* cache.json.br (loadCache, saveCache, cachedFetch), the solar noon       *)
(* arithmetic (nextSolarNoon), the collection of the next time zone        *)
(* transitions (nextTransition, solarNoons), the report of calculate, the *)
(* label of getTimeZoneOffset, and a run of the program from its top      *)
(* level through geocode and findTimezones to the report.                 *)
(*                                                                         *)
(* Granularity: every awaited library call that touches the file or the   *)
(* network (readFile, writeFile, fetch) is one atomic step: a writeFile    *)
(* replaces the whole content or fails and leaves it as it was.            *)
(* brotliCompress / brotliDecompress, JSON.stringify / JSON.parse and the  *)
(* synchronous code between two awaits touch only local data and are       *)
(* folded into the neighbouring step.                                      *)
(*                                                                         *)
(* The data of an entry is an opaque token: the provider's JSON arrays     *)
(* (objects of strings and ordinary numbers) are what JSON.stringify and   *)
(* JSON.parse hand back unchanged.  Math.round is applied to the exact     *)
(* quotient, not to its floating point approximation.                      *)
(***************************************************************************)
EXTENDS Integers, Sequences, FiniteSets, TLC

\* ---------------------------------------------------------------- bounds
MaxCalls == 3       \* cachedFetch calls made by the single process of Spec
MaxClock == 2       \* largest reading of Temporal.Now.instant()
MaxDays == 1        \* instants tried lie within this many days of the epoch
LonGrid == 4        \* longitudes tried: 180/LonGrid degree steps, and
MaxFine == 2        \*   this many finest steps next to -180, 0 and 180
SubMs == 2          \* longitude steps per millisecond of shift
MaxInst == 3        \* report: instants tried are 0..MaxInst quarter days
MaxPairs == 2       \* report: (location, time zone) pairs per run

MaxEntries == 2     \* round trip: entries of the mapping saved
MaxRounds == 2      \* round trip: times the loaded mapping is saved again

MaxAttempts == 3    \* storage: loadCache re-entries after which unlinks stop

\* ------------------------------------------------------------ input sets
Procs == {1, 2}                     \* program instances (Spec runs only 1)
URLs == {"u1", "u2", "u3"}             \* request URLs built by geocode
Data == {"d1", "d2"}                \* JSON arrays the provider can answer
StatusTexts == {"Not Found", "Forbidden"}
NoData == "none"

VARIABLES
    file,       \* cache.json.br: [exists, brotli, json, text]
    readable,   \* readFile of an existing file succeeds
    writable,   \* writeFile succeeds
    clock,      \* last reading of Temporal.Now.instant()
    pc,         \* pc[p]: where instance p stands in cachedFetch
    url,        \* url[p]: argument of the running call
    cache,      \* cache[p]: the mapping loadCache returned, as mutated
    data,       \* data[p]: the local `data` of a miss (line 66)
    ret,        \* ret[p]: outcome of the last completed call
    attempts,   \* attempts[p]: loadCache re-entries made by the running call
    ncalls,     \* ncalls[p]: calls started by p
    cur,        \* cur[p]: bookkeeping of the running call
    hist,       \* hist[p]: the last two completed calls of p, oldest first
    lastWriter  \* the instance whose writeFile succeeded last (0: none)

cacheVars == <<file, readable, writable, clock, pc, url, cache, data, ret,
               attempts, ncalls, cur, hist, lastWriter>>

VARIABLES
    date,       \* nextSolarNoon: epochMilliseconds of its argument `date`
    lon,        \* nextSolarNoon: its argument `lon`, in 1/LonDen degrees
    off,        \* the shift Math.round(...) of line 124, in milliseconds
    noon,       \* epochMilliseconds of the ZonedDateTime returned
    npc,        \* "call": arguments chosen, "done": the call has returned
    prev        \* longitude and shift of the call before this one

noonVars == <<date, lon, off, noon, npc, prev>>

VARIABLES
    tzTable,    \* tzTable[tz]: the instants at which tz changes its offset
    locations,  \* calculate: the list `locations` of {tz, location} pairs
    idx,        \* calculate: pairs reported so far (the loop's i)
    rclock,     \* last reading of Temporal.Now.zonedDateTimeISO
    now,        \* solarNoons: `now` of the pair being reported
    futureTransitions,  \* solarNoons: the list being collected
    rpc,        \* "loop", "collect", "print" or "done"
    out,        \* the lines written by console.log, in order
    nows        \* nows[i]: the `now` read for the i-th pair

reportVars == <<tzTable, locations, idx, rclock, now, futureTransitions, rpc,
                out, nows>>

VARIABLES
    saved,      \* the mapping handed to saveCache in a save / load round
    rounds      \* save / load rounds completed

roundVars == <<saved, rounds>>

VARIABLES
    olon,       \* calculate: location.lon of line 185, in 1/LonDen degrees
    hours,      \* the hours Math.round(...) of line 185 yields
    label,      \* the string getTimeZoneOffset returned, as characters
    opc         \* "call": longitude chosen, "done": the label is there

offsetVars == <<olon, hours, label, opc>>

VARIABLES
    argv,       \* process.argv
    mpc,        \* where the run stands: "start", "calculate", "geocode",
                \*   "report", "done", "exited" or "crashed"
    stderr,     \* the lines written by console.error / console.warn
    exitCode,   \* the exit status of the process (-1 while it runs)
    geoTz,      \* geoTz[place]: the zones geoTzFind names for a place
    geocoded,   \* the list geocode returned (lines 80-84)
    lookups     \* the (lat, lon) findTimezones was called with, in order

mainVars == <<argv, mpc, stderr, exitCode, geoTz, geocoded, lookups>>

vars == <<cacheVars, noonVars, reportVars, roundVars, offsetVars, mainVars>>

\* What the cache operations, nextSolarNoon and the report loop leave alone.
notCache == <<noonVars, reportVars, roundVars, offsetVars, mainVars>>
notNoon == <<cacheVars, reportVars, roundVars, offsetVars, mainVars>>
notReport == <<cacheVars, noonVars, roundVars, offsetVars, mainVars>>

\* ------------------------------------------------------- the Cache object
\* type Cache (lines 19-25): a JavaScript object, i.e. an ordered list of
\* members with distinct keys.  lastCached / lastRetrieved hold the instant
\* whose ISO string Temporal.Instant.toString() produced.
Member(k, v) == [key |-> k, value |-> v]
Entry(d, c, r) == [data |-> d, lastCached |-> c, lastRetrieved |-> r]

Has(obj, k) == \E i \in 1..Len(obj) : obj[i].key = k
Get(obj, k) == obj[CHOOSE i \in 1..Len(obj) : obj[i].key = k].value
Put(obj, k, v) ==
    IF Has(obj, k)
    THEN [i \in 1..Len(obj) |-> IF obj[i].key = k THEN Member(k, v) ELSE obj[i]]
    ELSE Append(obj, Member(k, v))
Keys(obj) == {obj[i].key : i \in 1..Len(obj)}

\* A stringify that writes lastCached where lastRetrieved belongs.
JSONStringify_OneStamp(obj) ==
    [i \in 1..Len(obj) |->
        <<obj[i].key, [obj[i].value EXCEPT !.lastRetrieved = obj[i].value.lastCached]>>]

\* JSON.stringify(cache, null, 4) (line 42): the members in property order,
\* each written as a "key": value pair of the text.
JSONStringify(obj) == [i \in 1..Len(obj) |-> <<obj[i].key, obj[i].value>>]

\* JSON.parse (line 31): members are defined in text order; a repeated key
\* overwrites the value and keeps the first position.
RECURSIVE ParseMembers(_, _)
ParseMembers(text, obj) ==
    IF text = <<>> THEN obj
    ELSE ParseMembers(Tail(text), Put(obj, Head(text)[1], Head(text)[2]))
JSONParse(text) == ParseMembers(text, <<>>)

\* The file: absent, or bytes that are (or are not) a brotli stream of a
\* text that is (or is not) JSON.
Absent == [exists |-> FALSE, brotli |-> FALSE, json |-> FALSE, text |-> <<>>]
Garbage == [exists |-> TRUE, brotli |-> FALSE, json |-> FALSE, text |-> <<>>]
BadJson == [exists |-> TRUE, brotli |-> TRUE, json |-> FALSE, text |-> <<>>]
\* saveCache (lines 41-45) up to the bytes handed to writeFile.
Compressed(obj) ==
    [exists |-> TRUE, brotli |-> TRUE, json |-> TRUE, text |-> JSONStringify(obj)]

\* The mapping a file persists (none when absent or undecodable).
Persisted(f) == IF f.exists /\ f.brotli /\ f.json THEN JSONParse(f.text) ELSE <<>>

\* ---------------------------------------------------------------- errors
Err(kind, u, st) == [kind |-> kind, url |-> u, statusText |-> st]
NoErr == Err("none", "", "")
ENOENT == Err("ENOENT", "", "")                 \* readFile, file missing
EACCESRead == Err("EACCES read", "", "")        \* readFile, unreadable
EACCESWrite == Err("EACCES write", "", "")      \* writeFile fails
ZError == Err("brotli decompress", "", "")      \* brotliDecompress fails
SyntaxErr == Err("SyntaxError", "", "")         \* JSON.parse / response.json
NetworkErr == Err("fetch TypeError", "", "")    \* fetch rejects
\* new Error(`failed to fetch ${url}: ${response.statusText}`) (line 64)
FetchFailure(u, st) == Err("failed to fetch", u, st)

Returned(d) == [ok |-> TRUE, data |-> d, err |-> NoErr]
Thrown(e) == [ok |-> FALSE, data |-> NoData, err |-> e]
NoRet == [ok |-> FALSE, data |-> NoData, err |-> NoErr]

\* ------------------------------------------------------------ bookkeeping
NoCur == [before |-> Absent, reqs |-> 0, resp |-> "none", st |-> "",
          hit |-> FALSE, sawAbsent |-> FALSE]
CallRecord(p, r, f, c) ==
    [url |-> url[p], ret |-> r, reqs |-> c.reqs, resp |-> c.resp,
     st |-> c.st, hit |-> c.hit, sawAbsent |-> c.sawAbsent,
     attempts |-> attempts[p], before |-> c.before, after |-> f]
Last2(h, rec) == IF Len(h) < 2 THEN Append(h, rec) ELSE <<h[2], rec>>

\* The call of p ends with outcome r, the file being f from then on and
\* c being what is on record of the call.
FinishAs(p, r, f, c) ==
    /\ pc' = [pc EXCEPT ![p] = "idle"]
    /\ ret' = [ret EXCEPT ![p] = r]
    /\ hist' = [hist EXCEPT ![p] = Last2(hist[p], CallRecord(p, r, f, c))]
Finish(p, r, f) == FinishAs(p, r, f, cur[p])

\* Temporal.Now.instant(): a reading not before the previous one.
Readings == {t \in clock..MaxClock : t <= clock + 1}

\* ------------------------------------------------------------------ Init
InitObjs ==
    {<<>>,
     <<Member("u1", Entry("d1", 0, 0))>>,
     <<Member("u2", Entry("d2", 0, 0))>>}
InitFiles == {Absent, Garbage, BadJson} \cup {Compressed(o) : o \in InitObjs}

\* No call of cachedFetch has been made.
NoCalls ==
    /\ clock = 0
    /\ pc = [p \in Procs |-> "idle"]
    /\ url = [p \in Procs |-> "u1"]
    /\ cache = [p \in Procs |-> <<>>]
    /\ data = [p \in Procs |-> NoData]
    /\ ret = [p \in Procs |-> NoRet]
    /\ attempts = [p \in Procs |-> 0]
    /\ ncalls = [p \in Procs |-> 0]
    /\ cur = [p \in Procs |-> NoCur]
    /\ hist = [p \in Procs |-> <<>>]
    /\ lastWriter = 0

\* The cache is left alone.
CacheIdle ==
    /\ file = Absent
    /\ readable = TRUE
    /\ writable = TRUE
    /\ NoCalls

\* No call of nextSolarNoon is under way.
NoPrev == [valid |-> FALSE, lon |-> 0, off |-> 0]
NoonIdle ==
    /\ date = 0 /\ lon = 0 /\ off = 0 /\ noon = 0 /\ npc = "idle"
    /\ prev = NoPrev

\* No report is being made.
ReportIdle ==
    /\ tzTable = [tz \in {"Fixed", "DST"} |-> {}]
    /\ locations = <<>>
    /\ idx = 0 /\ rclock = 0 /\ now = 0
    /\ futureTransitions = <<>>
    /\ rpc = "idle"
    /\ out = <<>>
    /\ nows = <<>>

\* No save / load round is being made.
RoundIdle == saved = <<>> /\ rounds = 0

\* No offset label is being computed.
OffsetIdle == olon = 0 /\ hours = 0 /\ label = <<>> /\ opc = "idle"

\* The top level of the program is not run.
MainIdle ==
    /\ argv = <<>> /\ mpc = "idle" /\ stderr = <<>> /\ exitCode = -1
    /\ geoTz = <<>> /\ geocoded = <<>> /\ lookups = <<>>

Init ==
    /\ file \in InitFiles
    /\ readable \in BOOLEAN
    /\ writable \in BOOLEAN
    /\ NoCalls
    /\ NoonIdle
    /\ ReportIdle
    /\ RoundIdle
    /\ OffsetIdle
    /\ MainIdle

\* --------------------------------------------------------------- actions
\* cachedFetch(url) is entered (line 47) and calls loadCache (line 48).
Call(p, u) ==
    /\ UNCHANGED notCache
    /\ pc[p] = "idle"
    /\ pc' = [pc EXCEPT ![p] = "load"]
    /\ url' = [url EXCEPT ![p] = u]
    /\ cache' = [cache EXCEPT ![p] = <<>>]
    /\ data' = [data EXCEPT ![p] = NoData]
    /\ attempts' = [attempts EXCEPT ![p] = 0]
    /\ ncalls' = [ncalls EXCEPT ![p] = @ + 1]
    /\ cur' = [cur EXCEPT ![p] = [NoCur EXCEPT !.before = file]]
    /\ UNCHANGED <<file, readable, writable, clock, ret, hist, lastWriter>>

\* loadCache with a catch that takes every error for a missing file.
LoadRead_CatchAll(p) ==
    /\ UNCHANGED notCache
    /\ pc[p] = "load"
    /\ UNCHANGED <<file, readable, writable, clock, url, data, attempts,
                   ncalls, lastWriter>>
    /\ IF ~file.exists \/ ~readable \/ ~file.brotli \/ ~file.json
       THEN /\ pc' = [pc EXCEPT ![p] = "init"]
            /\ cur' = [cur EXCEPT ![p].sawAbsent = ~file.exists]
            /\ UNCHANGED <<cache, ret, hist>>
       ELSE /\ cache' = [cache EXCEPT ![p] = JSONParse(file.text)]
            /\ pc' = [pc EXCEPT ![p] = "check"]
            /\ UNCHANGED <<cur, ret, hist>>

\* loadCache, the try block (lines 28-31) and the catch (lines 32-37):
\* readFile, brotliDecompress, JSON.parse; ENOENT goes on to line 34, any
\* other error is rethrown and leaves cachedFetch at line 48.
LoadRead(p) ==
    /\ UNCHANGED notCache
    /\ pc[p] = "load"
    /\ UNCHANGED <<file, readable, writable, clock, url, data, attempts,
                   ncalls, lastWriter>>
    /\ IF ~file.exists
       THEN /\ pc' = [pc EXCEPT ![p] = "init"]
            /\ cur' = [cur EXCEPT ![p].sawAbsent = TRUE]
            /\ UNCHANGED <<cache, ret, hist>>
       ELSE IF ~readable
       THEN Finish(p, Thrown(EACCESRead), file) /\ UNCHANGED <<cache, cur>>
       ELSE IF ~file.brotli
       THEN Finish(p, Thrown(ZError), file) /\ UNCHANGED <<cache, cur>>
       ELSE IF ~file.json
       THEN Finish(p, Thrown(SyntaxErr), file) /\ UNCHANGED <<cache, cur>>
       ELSE /\ cache' = [cache EXCEPT ![p] = JSONParse(file.text)]
            /\ pc' = [pc EXCEPT ![p] = "check"]
            /\ UNCHANGED <<cur, ret, hist>>

\* loadCache returning the empty mapping for a missing file without
\* writing it.
LoadInitSave_NoWrite(p) ==
    /\ UNCHANGED notCache
    /\ pc[p] = "init"
    /\ UNCHANGED <<file, lastWriter, readable, writable, clock, url, data,
                   ncalls, cur, ret, hist>>
    /\ cache' = [cache EXCEPT ![p] = <<>>]
    /\ attempts' = [attempts EXCEPT ![p] = @ + 1]
    /\ pc' = [pc EXCEPT ![p] = "check"]

\* loadCache, lines 34-35: saveCache({}) and the re-entry of loadCache.  A
\* failing writeFile is thrown out of the catch block.
LoadInitSave(p) ==
    /\ UNCHANGED notCache
    /\ pc[p] = "init"
    /\ UNCHANGED <<readable, writable, clock, url, cache, data, ncalls, cur>>
    /\ IF writable
       THEN /\ file' = Compressed(<<>>)
            /\ lastWriter' = p
            /\ attempts' = [attempts EXCEPT ![p] = @ + 1]
            /\ pc' = [pc EXCEPT ![p] = "load"]
            /\ UNCHANGED <<ret, hist>>
       ELSE /\ Finish(p, Thrown(EACCESWrite), file)
            /\ UNCHANGED <<file, lastWriter, attempts>>

\* cachedFetch with a hit that stamps lastCached as well.
Check_HitRestamps(p) ==
    /\ UNCHANGED notCache
    /\ pc[p] = "check"
    /\ UNCHANGED <<file, readable, writable, url, data, ret, attempts, ncalls,
                   hist, lastWriter>>
    /\ IF Has(cache[p], url[p])
       THEN \E t \in Readings :
              /\ clock' = t
              /\ cache' = [cache EXCEPT ![p] =
                    Put(@, url[p], [Get(@, url[p]) EXCEPT !.lastRetrieved = t,
                                                          !.lastCached = t])]
              /\ cur' = [cur EXCEPT ![p].hit = TRUE]
              /\ pc' = [pc EXCEPT ![p] = "hitsave"]
       ELSE /\ cur' = [cur EXCEPT ![p].reqs = @ + 1]
            /\ pc' = [pc EXCEPT ![p] = "fetch"]
            /\ UNCHANGED <<clock, cache>>

\* cachedFetch, lines 50-52 (hit: lastRetrieved is set from the clock) or
\* line 58 (miss: the request is issued).
Check(p) ==
    /\ UNCHANGED notCache
    /\ pc[p] = "check"
    /\ UNCHANGED <<file, readable, writable, url, data, ret, attempts, ncalls,
                   hist, lastWriter>>
    /\ IF Has(cache[p], url[p])
       THEN \E t \in Readings :
              /\ clock' = t
              /\ cache' = [cache EXCEPT ![p] =
                    Put(@, url[p], [Get(@, url[p]) EXCEPT !.lastRetrieved = t])]
              /\ cur' = [cur EXCEPT ![p].hit = TRUE]
              /\ pc' = [pc EXCEPT ![p] = "hitsave"]
       ELSE /\ cur' = [cur EXCEPT ![p].reqs = @ + 1]
            /\ pc' = [pc EXCEPT ![p] = "fetch"]
            /\ UNCHANGED <<clock, cache>>

\* cachedFetch, lines 53-54: saveCache(cache), then return entry.data.
HitSave(p) ==
    /\ UNCHANGED notCache
    /\ pc[p] = "hitsave"
    /\ UNCHANGED <<readable, writable, clock, url, cache, data, attempts,
                   ncalls, cur>>
    /\ IF writable
       THEN /\ file' = Compressed(cache[p])
            /\ lastWriter' = p
            /\ Finish(p, Returned(Get(cache[p], url[p]).data), file')
       ELSE /\ Finish(p, Thrown(EACCESWrite), file)
            /\ UNCHANGED <<file, lastWriter>>

\* The entry with the two readings stored the other way round.
NewEntry_Swapped(d, t1, t2) == Entry(d, t2, t1)

\* The entry a successful miss stores (lines 67-71): two clock readings,
\* lastCached first.
NewEntry(d, t1, t2) == Entry(d, t1, t2)

\* cachedFetch without the test of response.ok: the body of an unsuccessful
\* response is stored like any other.
FetchRespond_NoOkCheck(p) ==
    /\ UNCHANGED notCache
    /\ pc[p] = "fetch"
    /\ UNCHANGED <<file, readable, writable, url, attempts, ncalls, lastWriter>>
    /\ \/ /\ cur' = [cur EXCEPT ![p].resp = "network"]
          /\ FinishAs(p, Thrown(NetworkErr), file, cur'[p])
          /\ UNCHANGED <<clock, cache, data>>
       \/ /\ cur' = [cur EXCEPT ![p].resp = "badbody"]
          /\ FinishAs(p, Thrown(SyntaxErr), file, cur'[p])
          /\ UNCHANGED <<clock, cache, data>>
       \/ \E st \in StatusTexts \cup {"OK"} : \E d \in Data :
          \E t1 \in Readings : \E t2 \in {t \in t1..MaxClock : t <= t1 + 1} :
          /\ cur' = [cur EXCEPT ![p].resp = IF st = "OK" THEN "ok" ELSE "notok",
                                ![p].st = IF st = "OK" THEN "" ELSE st]
          /\ data' = [data EXCEPT ![p] = d]
          /\ clock' = t2
          /\ cache' = [cache EXCEPT ![p] = Put(@, url[p], NewEntry(d, t1, t2))]
          /\ pc' = [pc EXCEPT ![p] = "misssave"]
          /\ UNCHANGED <<ret, hist>>

\* cachedFetch, lines 58-71: the response arrives.  fetch may reject, the
\* status may be unsuccessful (lines 63-65), the body may not be JSON
\* (line 66); otherwise the entry is put into the loaded mapping.
FetchRespond(p) ==
    /\ UNCHANGED notCache
    /\ pc[p] = "fetch"
    /\ UNCHANGED <<file, readable, writable, url, attempts, ncalls, lastWriter>>
    /\ \/ /\ cur' = [cur EXCEPT ![p].resp = "network"]
          /\ FinishAs(p, Thrown(NetworkErr), file, cur'[p])
          /\ UNCHANGED <<clock, cache, data>>
       \/ \E st \in StatusTexts :
          /\ cur' = [cur EXCEPT ![p].resp = "notok", ![p].st = st]
          /\ FinishAs(p, Thrown(FetchFailure(url[p], st)), file, cur'[p])
          /\ UNCHANGED <<clock, cache, data>>
       \/ /\ cur' = [cur EXCEPT ![p].resp = "badbody"]
          /\ FinishAs(p, Thrown(SyntaxErr), file, cur'[p])
          /\ UNCHANGED <<clock, cache, data>>
       \/ \E d \in Data : \E t1 \in Readings :
          \E t2 \in {t \in t1..MaxClock : t <= t1 + 1} :
          /\ cur' = [cur EXCEPT ![p].resp = "ok"]
          /\ data' = [data EXCEPT ![p] = d]
          /\ clock' = t2
          /\ cache' = [cache EXCEPT ![p] = Put(@, url[p], NewEntry(d, t1, t2))]
          /\ pc' = [pc EXCEPT ![p] = "misssave"]
          /\ UNCHANGED <<ret, hist>>

\* cachedFetch returning the fetched data without saving the cache.
MissSave_NoPersist(p) ==
    /\ UNCHANGED notCache
    /\ pc[p] = "misssave"
    /\ UNCHANGED <<readable, writable, clock, url, cache, data, attempts,
                   ncalls, cur, file, lastWriter>>
    /\ Finish(p, Returned(data[p]), file)

\* cachedFetch adding its entry to the mapping the file holds at the time
\* of the save instead of writing the mapping it loaded.
MissSave_Merge(p) ==
    /\ UNCHANGED notCache
    /\ pc[p] = "misssave"
    /\ UNCHANGED <<readable, writable, clock, url, cache, data, attempts,
                   ncalls, cur>>
    /\ IF writable
       THEN /\ file' = Compressed(Put(Persisted(file), url[p],
                                      Get(cache[p], url[p])))
            /\ lastWriter' = p
            /\ Finish(p, Returned(data[p]), file')
       ELSE /\ Finish(p, Thrown(EACCESWrite), file)
            /\ UNCHANGED <<file, lastWriter>>

\* cachedFetch, lines 72-73: saveCache(cache), then return data.
MissSave(p) ==
    /\ UNCHANGED notCache
    /\ pc[p] = "misssave"
    /\ UNCHANGED <<readable, writable, clock, url, cache, data, attempts,
                   ncalls, cur>>
    /\ IF writable
       THEN /\ file' = Compressed(cache[p])
            /\ lastWriter' = p
            /\ Finish(p, Returned(data[p]), file')
       ELSE /\ Finish(p, Thrown(EACCESWrite), file)
            /\ UNCHANGED <<file, lastWriter>>

Step(p) ==
    \/ LoadRead(p)
    \/ LoadInitSave(p)
    \/ Check(p)
    \/ HitSave(p)
    \/ FetchRespond(p)
    \/ MissSave(p)

\* One program instance calling cachedFetch again and again.
Next ==
    \/ \E u \in URLs : ncalls[1] < MaxCalls /\ Call(1, u)
    \/ Step(1)

Spec == Init /\ [][Next]_vars

\* Two program instances, each making the one cachedFetch call of a run
\* (calculate, line 150), their steps interleaved at the awaits.
NextRace ==
    \/ \E p \in Procs : \E u \in URLs : ncalls[p] = 0 /\ Call(p, u)
    \/ \E p \in Procs : Step(p)

SpecRace == Init /\ [][NextRace]_vars

\* ------------------------------------------------------- nextSolarNoon
DayMs == 86400000                       \* line 125, line 127
HalfDayMs == 12 * 60 * 60 * 1000        \* line 124

\* Math.round of the quotient num/den (den > 0): the nearest integer, a
\* half rounding towards +Infinity.
MathRound(num, den) == (2 * num + den) \div (2 * den)

\* JavaScript's % on integers: the remainder has the sign of the dividend.
JsRem(a, b) == IF a >= 0 THEN a % b ELSE -((-a) % b)

\* A longitude is an integer n that stands for n/LonDen degrees; one degree
\* shifts solar noon by HalfDayMs/180 milliseconds, one step by 1/SubMs.
MsPerDegree == HalfDayMs \div 180
LonDen == MsPerDegree * SubMs

\* The shift with the sign of the longitude lost.
solarNoonUtcOffset_Negated(n) == MathRound(-n, SubMs)

\* Math.round((lon / 180) * 12 * 60 * 60 * 1000) (line 124) of the
\* longitude n/LonDen degrees: (n/LonDen)/180 * HalfDayMs = n/SubMs, in
\* exact arithmetic.
solarNoonUtcOffset(n) == MathRound(n, SubMs)

\* while (diff < 0) diff += 86400000 (lines 126-128).
RECURSIVE AddDays(_)
AddDays(diff) == IF diff < 0 THEN AddDays(diff + DayMs) ELSE diff

\* nextSolarNoon with the shift added to 12:00 UTC instead of subtracted.
nextSolarNoon_ShiftAdded(d, n) ==
    LET solarNoon == 43200000 + solarNoonUtcOffset(n)
        diff == solarNoon - JsRem(d, DayMs)
    IN  d + AddDays(diff)

\* nextSolarNoon (lines 123-130), on epoch milliseconds.
nextSolarNoon(d, n) ==
    LET solarNoon == 43200000 - solarNoonUtcOffset(n)
        diff == solarNoon - JsRem(d, DayMs)
    IN  d + AddDays(diff)

\* Longitudes of [-180, 180] and instants around the epoch that are tried.
West == -180 * LonDen
East == 180 * LonDen
Longitudes ==
    {(k * East) \div LonGrid : k \in -LonGrid..LonGrid}
    \cup {West + e : e \in 0..MaxFine}
    \cup {e : e \in -MaxFine..MaxFine}
    \cup {East - e : e \in 0..MaxFine}
TimesOfDay ==
    {0, 1, HalfDayMs - 1, HalfDayMs, HalfDayMs + 1, DayMs - 1}
    \cup {(k * DayMs) \div 4 : k \in 1..3}
Instants == {k * DayMs + t : k \in -MaxDays..MaxDays, t \in TimesOfDay}

InitNoon ==
    /\ CacheIdle
    /\ ReportIdle
    /\ RoundIdle
    /\ OffsetIdle
    /\ MainIdle
    /\ date \in Instants
    /\ lon \in Longitudes
    /\ off = 0 /\ noon = 0 /\ npc = "call"
    /\ prev = NoPrev

\* nextSolarNoon(date, lon) runs and returns.
NoonReturn ==
    /\ npc = "call"
    /\ off' = solarNoonUtcOffset(lon)
    /\ noon' = nextSolarNoon(date, lon)
    /\ npc' = "done"
    /\ UNCHANGED <<date, lon, prev>>
    /\ UNCHANGED notNoon

\* The next call, for another longitude.
NoonCall(n) ==
    /\ npc = "done"
    /\ prev' = [valid |-> TRUE, lon |-> lon, off |-> off]
    /\ lon' = n
    /\ npc' = "call"
    /\ UNCHANGED <<date, off, noon>>
    /\ UNCHANGED notNoon

NextNoon ==
    \/ NoonReturn
    \/ \E n \in Longitudes : NoonCall(n)

SpecNoon == InitNoon /\ [][NextNoon]_vars

\* ------------------------------------------- solarNoons and calculate
\* The instants of a report: quarter days from the epoch.
QuarterDay == DayMs \div 4
RInstants == {k * QuarterDay : k \in 0..MaxInst}
Null == -1

TZs == {"Fixed", "DST"}     \* a fixed-offset zone and one with transitions
\* Locations after geocode: display_name and lon (in 1/LonDen degrees).
Locations ==
    {[display_name |-> "Tokyo, Japan", lon |-> 67032144],
     [display_name |-> "Taveuni, Fiji", lon |-> West]}
Pairs == {[tz |-> tz, location |-> l] : tz \in TZs, l \in Locations}
PairLists == UNION {[1..n -> Pairs] : n \in 0..MaxPairs}

\* A lookup that returns the transition at the instant itself, if any.
nextTransition_AtOrAfter(d, table) ==
    LET later == {t \in table : t >= d}
    IN  IF later = {} THEN Null
        ELSE CHOOSE t \in later : \A x \in later : t <= x

\* nextTransition (lines 98-113): the first offset change of the zone
\* strictly after the instant d, or null.
nextTransition(d, table) ==
    LET later == {t \in table : t > d}
    IN  IF later = {} THEN Null
        ELSE CHOOSE t \in later : \A x \in later : t <= x

\* futureTransitions.at(-1) ?? now (line 136).
Seed(ft, n) == IF ft = <<>> THEN n ELSE ft[Len(ft)]

\* One console.log line of a block; blk is the index of its pair.
Line(blk, kind, at, sn) == [blk |-> blk, kind |-> kind, at |-> at, noon |-> sn]

\* Lines 159-167: the head of a block.
HeadLines(i, n, l) ==
    <<Line(i, "Location", 0, 0), Line(i, "Coordinates", 0, 0),
      Line(i, "Time zone", 0, 0),
      Line(i, "Solar noon is currently at", n, nextSolarNoon(n, l))>>

\* Only the first collected transition is printed.
TransitionLines_FirstOnly(i, ft, l) ==
    <<Line(i, "From", ft[1], nextSolarNoon(ft[1], l))>>

\* Lines 173-183: one line per collected transition, with the solar noon
\* solarNoons computed for it (lines 142-145).
TransitionLines(i, ft, l) ==
    [j \in 1..Len(ft) |->
        Line(i, "From", ft[j], nextSolarNoon(ft[j], l))]

\* Lines 159-188: what one pass of the loop prints after solarNoons.
BlockLines(i, n, ft, l) ==
    HeadLines(i, n, l)
    \o (IF Len(ft) = 0
        THEN <<Line(i, "No changes are scheduled", 0, 0)>>
        ELSE TransitionLines(i, ft, l))
    \o <<Line(i, "The optimal whole-hour UTC offset", 0, 0)>>

InitReport ==
    /\ CacheIdle
    /\ NoonIdle
    /\ RoundIdle
    /\ OffsetIdle
    /\ MainIdle
    /\ tzTable \in {[tz \in TZs |-> IF tz = "Fixed" THEN {} ELSE tab] :
                        tab \in SUBSET RInstants}
    /\ locations \in PairLists
    /\ idx = 0 /\ rclock = 0 /\ now = 0
    /\ futureTransitions = <<>>
    /\ rpc = "loop"
    /\ out = <<>>
    /\ nows = <<>>

\* calculate, lines 153-158: the loop test, the blank line between blocks,
\* and the entry of solarNoons (lines 133-134), which reads the clock.
LoopHead ==
    /\ rpc = "loop"
    /\ UNCHANGED notReport
    /\ UNCHANGED <<tzTable, locations, idx>>
    /\ IF idx < Len(locations)
       THEN \E t \in {x \in RInstants : x >= rclock} :
              /\ rclock' = t
              /\ now' = t
              /\ nows' = Append(nows, t)
              /\ futureTransitions' = <<>>
              /\ out' = IF idx > 0
                        THEN Append(out, Line(idx + 1, "", 0, 0))
                        ELSE out
              /\ rpc' = "collect"
       ELSE /\ rpc' = "done"
            /\ UNCHANGED <<rclock, now, nows, futureTransitions, out>>

\* solarNoons, lines 135-139: one pass of the while loop, or its exit.
Collect ==
    /\ rpc = "collect"
    /\ UNCHANGED notReport
    /\ UNCHANGED <<tzTable, locations, idx, rclock, now, out, nows>>
    /\ IF Len(futureTransitions) < 2
       THEN LET nextDate == nextTransition(Seed(futureTransitions, now),
                                           tzTable[locations[idx + 1].tz])
            IN  IF nextDate = Null
                THEN /\ rpc' = "print"
                     /\ UNCHANGED futureTransitions
                ELSE /\ futureTransitions' = Append(futureTransitions, nextDate)
                     /\ UNCHANGED rpc
       ELSE /\ rpc' = "print"
            /\ UNCHANGED futureTransitions

\* solarNoons returns (lines 140-146) and calculate prints the block
\* (lines 159-188); the loop goes on with the next pair.
PrintBlock ==
    /\ rpc = "print"
    /\ UNCHANGED notReport
    /\ UNCHANGED <<tzTable, locations, rclock, now, futureTransitions, nows>>
    /\ out' = out \o BlockLines(idx + 1, now, futureTransitions,
                                locations[idx + 1].location.lon)
    /\ idx' = idx + 1
    /\ rpc' = "loop"

NextReport ==
    \/ LoopHead
    \/ Collect
    \/ PrintBlock

SpecReport == InitReport /\ [][NextReport]_vars

\* ----------------------------------------------------- getTimeZoneOffset
\* Math.round((location.lon / 180) * 12) (line 185).  Math.round yields -0
\* for a quotient in [-0.5, 0); Temporal.Duration.from reads -0 as 0, so
\* the Duration is the zero duration, which is what 0 stands for here.
OptimalHours(n) == MathRound(n, 15 * LonDen)

Digit(k) == <<"0", "1", "2", "3", "4", "5", "6", "7", "8", "9">>[k + 1]
\* PlainTime.toString({smallestUnit: 'minutes'}): HH:MM, two digits each.
PlainTimeString(h, m) ==
    <<Digit(h \div 10), Digit(h % 10), ":", Digit(m \div 10), Digit(m % 10)>>

\* getTimeZoneOffset with '-' for every Duration that is not positive.
getTimeZoneOffset_MinusZero(h) ==
    LET abs == IF h < 0 THEN -h ELSE h
        plainTime == PlainTimeString(abs % 24, 0)
        sign == IF h <= 0 THEN "-" ELSE "+"
    IN  <<sign>> \o plainTime

\* getTimeZoneOffset (lines 115-121) of a Duration of h hours: 00:00 plus
\* the absolute duration (PlainTime wraps at 24 h), the sign of the
\* duration in front, and the offset string of the ZonedDateTime in the
\* zone so named, which is that same +HH:MM / -HH:MM.
getTimeZoneOffset(h) ==
    LET abs == IF h < 0 THEN -h ELSE h
        plainTime == PlainTimeString(abs % 24, 0)
        sign == IF h < 0 THEN "-" ELSE "+"
    IN  <<sign>> \o plainTime

\* 139.6503 degrees, the longitude Nominatim gives for Tokyo.
TokyoLon == 33516072 * SubMs
\* Longitudes tried: those of nextSolarNoon, Tokyo, and the finest steps
\* around every multiple of 7.5 degrees, where the rounded hour changes.
OffsetLongitudes ==
    Longitudes \cup {TokyoLon}
    \cup {x \in {k * (East \div 24) + e : k \in -24..24, e \in -MaxFine..MaxFine} :
            West <= x /\ x <= East}

InitOffset ==
    /\ CacheIdle
    /\ NoonIdle
    /\ ReportIdle
    /\ RoundIdle
    /\ MainIdle
    /\ olon \in OffsetLongitudes
    /\ hours = 0 /\ label = <<>> /\ opc = "call"

\* Lines 184-187: the hours are rounded and getTimeZoneOffset returns the
\* label the last line of a block shows after "The optimal whole-hour UTC
\* offset would be ".
OffsetReturn ==
    /\ opc = "call"
    /\ hours' = OptimalHours(olon)
    /\ label' = getTimeZoneOffset(OptimalHours(olon))
    /\ opc' = "done"
    /\ UNCHANGED olon
    /\ UNCHANGED <<cacheVars, noonVars, reportVars, roundVars, mainVars>>

\* The next block, for another longitude.
OffsetCall(n) ==
    /\ opc = "done"
    /\ olon' = n
    /\ opc' = "call"
    /\ UNCHANGED <<hours, label>>
    /\ UNCHANGED <<cacheVars, noonVars, reportVars, roundVars, mainVars>>

NextOffset ==
    \/ OffsetReturn
    \/ \E n \in OffsetLongitudes : OffsetCall(n)

SpecOffset == InitOffset /\ [][NextOffset]_vars

\* ------------------------------------------ a storage that loses the file
\* cache.json.br is removed by something other than the program (it sits
\* in the source directory, line 17), at any moment between two steps.
Unlink ==
    /\ file.exists
    /\ attempts[1] < MaxAttempts
    /\ file' = Absent
    /\ UNCHANGED <<readable, writable, clock, pc, url, cache, data, ret,
                   attempts, ncalls, cur, hist, lastWriter>>
    /\ UNCHANGED notCache

\* One run of the program, which makes one cachedFetch call (line 150), on
\* such a storage.
NextStorage ==
    \/ \E u \in URLs : ncalls[1] = 0 /\ Call(1, u)
    \/ Step(1)
    \/ Unlink

SpecStorage == Init /\ [][NextStorage]_vars

\* -------------------------------------------- saveCache, then loadCache
\* The mappings a run can hold in memory: members with distinct URLs in
\* any order, every entry stamped with two readings of the clock.
Stamps == {st \in (0..MaxClock) \X (0..MaxClock) : st[1] <= st[2]}
Entries == {Entry(d, st[1], st[2]) : d \in Data, st \in Stamps}
Mappings ==
    UNION {{m \in [1..n -> [key : URLs, value : Entries]] :
                \A i, j \in 1..n : m[i].key = m[j].key => i = j} :
           n \in 0..MaxEntries}

InitRound ==
    /\ file = Absent
    /\ readable = TRUE
    /\ writable = TRUE
    /\ clock = 0
    /\ saved \in Mappings
    /\ cache = [p \in Procs |-> IF p = 1 THEN saved ELSE <<>>]
    /\ pc = [p \in Procs |-> IF p = 1 THEN "save" ELSE "idle"]
    /\ url = [p \in Procs |-> "u1"]
    /\ data = [p \in Procs |-> NoData]
    /\ ret = [p \in Procs |-> NoRet]
    /\ attempts = [p \in Procs |-> 0]
    /\ ncalls = [p \in Procs |-> 0]
    /\ cur = [p \in Procs |-> NoCur]
    /\ hist = [p \in Procs |-> <<>>]
    /\ lastWriter = 0
    /\ rounds = 0
    /\ NoonIdle
    /\ ReportIdle
    /\ OffsetIdle
    /\ MainIdle

\* saveCache(cache) (lines 41-45) with the mapping held in memory.
RoundSave(p) ==
    /\ pc[p] = "save"
    /\ IF writable
       THEN /\ file' = Compressed(cache[p])
            /\ lastWriter' = p
            /\ pc' = [pc EXCEPT ![p] = "load"]
            /\ UNCHANGED <<ret, hist>>
       ELSE /\ Finish(p, Thrown(EACCESWrite), file)
            /\ UNCHANGED <<file, lastWriter>>
    /\ UNCHANGED <<readable, writable, clock, url, cache, data, attempts,
                   ncalls, cur>>
    /\ UNCHANGED <<noonVars, reportVars, roundVars, offsetVars, mainVars>>

\* The mapping loadCache returned is the one saved next.
RoundAgain(p) ==
    /\ pc[p] = "check"
    /\ rounds < MaxRounds
    /\ rounds' = rounds + 1
    /\ pc' = [pc EXCEPT ![p] = "save"]
    /\ UNCHANGED saved
    /\ UNCHANGED <<file, readable, writable, clock, url, cache, data, ret,
                   attempts, ncalls, cur, hist, lastWriter>>
    /\ UNCHANGED <<noonVars, reportVars, offsetVars, mainVars>>

\* saveCache and loadCache (LoadRead) called in turn.
NextRound ==
    \/ RoundSave(1)
    \/ LoadRead(1)
    \/ RoundAgain(1)

SpecRound == InitRound /\ [][NextRound]_vars

\* ------------------------------------ the program: top level to report
\* process.argv: node, the script, and the words of the location.
Argvs ==
    {<<"node", "main.ts">>,
     <<"node", "main.ts", "Tokyo">>,
     <<"node", "main.ts", "Taveuni", "Fiji">>}
\* process.argv.slice(2).join(' ') (line 197), kept as its words.
LocationArg(av) == SubSeq(av, 3, Len(av))
\* The URL geocode builds for a location (line 78): one per location.
GeocodeUrl(words) ==
    IF words = <<"Tokyo">> THEN "u1"
    ELSE IF words = <<"Taveuni", "Fiji">> THEN "u2"
    ELSE "u3"

\* What parseFloat yields for a string that starts with no number; it is
\* no latitude and no longitude.
NaN == 999 * LonDen
\* parseFloat (lines 82-83) on the strings of the provider's records.
ParseFloat(str) ==
    CASE str = "35.5" -> (71 * LonDen) \div 2
      [] str = "139.6503" -> TokyoLon
      [] str = "-17" -> -17 * LonDen
      [] str = "-180" -> West
      [] OTHER -> NaN

\* The JSON array behind a data token: the provider's records, lat and
\* lon being strings.
Record(name, lat, lng) == [display_name |-> name, lat |-> lat, lon |-> lng]
ResponseOf(d) ==
    IF d = "d1"
    THEN <<Record("Tokyo, Japan", "35.5", "139.6503"),
           Record("Taveuni, Fiji", "-17", "-180")>>
    ELSE <<Record("Taveuni, Fiji", "-17", "-180"),
           Record("Nowhere", "", "139.6503")>>

\* geocode's map (lines 80-84): the record with lat and lon parsed.
Geocode(json) ==
    [i \in 1..Len(json) |->
        Record(json[i].display_name, ParseFloat(json[i].lat),
               ParseFloat(json[i].lon))]

\* The places geoTzFind knows, and the lists it can return for one.
Places == {<<(71 * LonDen) \div 2, TokyoLon>>, <<-17 * LonDen, West>>}
TzLists == {<<>>, <<"Fixed">>, <<"Fixed", "DST">>, <<"DST", "Fixed">>}

\* One line of stderr.
ErrLine(kind, lat, lng) == [kind |-> kind, lat |-> lat, lon |-> lng]
Usage == ErrLine("Please specify a location as a command-line argument", 0, 0)
Uncaught == ErrLine("uncaught error", 0, 0)

\* A findTimezones that warns whenever a zone was found.
FindTimezonesWarn_Any(l, tzs) ==
    IF Len(tzs) > 0
    THEN <<ErrLine("Warning: ambiguous time zones", l.lat, l.lon)>>
    ELSE <<>>

\* findTimezones, lines 89-94: what it writes to stderr for the zones found.
FindTimezonesWarn(l, tzs) ==
    IF Len(tzs) > 1
    THEN <<ErrLine("Warning: ambiguous time zones", l.lat, l.lon)>>
    ELSE <<>>

NoPairs == [pairs |-> <<>>, warns |-> <<>>, looks |-> <<>>, thrown |-> FALSE]

\* The flatMap of lines 150-152 over the geocoded list g: findTimezones is
\* called for every location in turn with its lat and lon.  For a
\* coordinate that is NaN geoTzFind either throws (nanThrows) or finds no
\* zone; an error ends the flatMap.
RECURSIVE FlatMap(_, _, _, _)
FlatMap(g, table, nanThrows, acc) ==
    IF g = <<>> \/ acc.thrown THEN acc
    ELSE LET l == Head(g)
             bad == l.lat = NaN \/ l.lon = NaN
             tzs == IF bad THEN <<>> ELSE table[<<l.lat, l.lon>>]
         IN  FlatMap(Tail(g), table, nanThrows,
                     [pairs |-> acc.pairs
                                \o [j \in 1..Len(tzs) |->
                                       [tz |-> tzs[j], location |-> l]],
                      warns |-> acc.warns \o FindTimezonesWarn(l, tzs),
                      looks |-> Append(acc.looks, <<l.lat, l.lon>>),
                      thrown |-> bad /\ nanThrows])

InitMain ==
    /\ file \in InitFiles
    /\ readable \in BOOLEAN
    /\ writable \in BOOLEAN
    /\ NoCalls
    /\ NoonIdle
    /\ RoundIdle
    /\ OffsetIdle
    /\ tzTable = [tz \in TZs |-> IF tz = "Fixed" THEN {} ELSE {QuarterDay}]
    /\ locations = <<>>
    /\ idx = 0 /\ rclock = 0 /\ now = 0
    /\ futureTransitions = <<>>
    /\ rpc = "idle"
    /\ out = <<>>
    /\ nows = <<>>
    /\ argv \in Argvs
    /\ mpc = "start"
    /\ stderr = <<>>
    /\ exitCode = -1
    /\ geoTz \in [Places -> TzLists]
    /\ geocoded = <<>>
    /\ lookups = <<>>

\* A top level that prints the usage message and goes on.
TopLevel_NoExit ==
    /\ mpc = "start"
    /\ stderr' = IF Len(argv) < 3 THEN Append(stderr, Usage) ELSE stderr
    /\ mpc' = "calculate"
    /\ UNCHANGED <<argv, exitCode, geoTz, geocoded, lookups>>
    /\ UNCHANGED <<cacheVars, noonVars, reportVars, roundVars, offsetVars>>

\* Lines 192-197: without a location the usage message goes to stderr and
\* exit(1) ends the process; otherwise calculate is called.
TopLevel ==
    /\ mpc = "start"
    /\ IF Len(argv) < 3
       THEN /\ stderr' = Append(stderr, Usage)
            /\ exitCode' = 1
            /\ mpc' = "exited"
       ELSE /\ mpc' = "calculate"
            /\ UNCHANGED <<stderr, exitCode>>
    /\ UNCHANGED <<argv, geoTz, geocoded, lookups>>
    /\ UNCHANGED <<cacheVars, noonVars, reportVars, roundVars, offsetVars>>

\* calculate calls geocode (line 150), which calls cachedFetch with the
\* URL of the location (lines 77-79).
EnterGeocode ==
    /\ mpc = "calculate"
    /\ ncalls[1] = 0
    /\ Call(1, GeocodeUrl(LocationArg(argv)))

\* cachedFetch has returned or thrown.  An error rejects geocode,
\* calculate and the top-level await (line 197): the process ends with an
\* uncaught error.  Otherwise geocode maps the records (lines 80-84) and
\* calculate builds `locations` (lines 150-152).
Resolve ==
    /\ mpc = "calculate"
    /\ ncalls[1] = 1
    /\ pc[1] = "idle"
    /\ IF ~ret[1].ok
       THEN /\ stderr' = Append(stderr, Uncaught)
            /\ exitCode' = 1
            /\ mpc' = "crashed"
            /\ UNCHANGED <<geocoded, lookups, locations, rpc>>
       ELSE \E nanThrows \in BOOLEAN :
              LET g == Geocode(ResponseOf(ret[1].data))
                  fm == FlatMap(g, geoTz, nanThrows, NoPairs)
              IN  /\ geocoded' = g
                  /\ lookups' = fm.looks
                  /\ IF fm.thrown
                     THEN /\ stderr' = Append(stderr \o fm.warns, Uncaught)
                          /\ exitCode' = 1
                          /\ mpc' = "crashed"
                          /\ UNCHANGED <<locations, rpc>>
                     ELSE /\ stderr' = stderr \o fm.warns
                          /\ locations' = fm.pairs
                          /\ rpc' = "loop"
                          /\ mpc' = "report"
                          /\ UNCHANGED exitCode
    /\ UNCHANGED <<argv, geoTz>>
    /\ UNCHANGED <<tzTable, idx, rclock, now, futureTransitions, out, nows>>
    /\ UNCHANGED <<cacheVars, noonVars, roundVars, offsetVars>>

\* The loop of calculate is over: the top-level await returns and the
\* process ends.
Finished ==
    /\ mpc = "report"
    /\ rpc = "done"
    /\ mpc' = "done"
    /\ exitCode' = 0
    /\ UNCHANGED <<argv, stderr, geoTz, geocoded, lookups>>
    /\ UNCHANGED <<cacheVars, noonVars, reportVars, roundVars, offsetVars>>

\* One run of the program.
NextMain ==
    \/ TopLevel
    \/ EnterGeocode
    \/ Step(1)
    \/ Resolve
    \/ LoopHead
    \/ Collect
    \/ PrintBlock
    \/ Finished

SpecMain == InitMain /\ [][NextMain]_vars

\* ================================================================ claims
\* The completed calls on record (the last two of every instance).
Records == UNION {{hist[p][i] : i \in 1..Len(hist[p])} : p \in Procs}

\* File g differs from file f at most in lastRetrieved of the entry for u.
OnlyLastRetrievedChanged(f, g, u) ==
    /\ f.exists = g.exists /\ f.brotli = g.brotli /\ f.json = g.json
    /\ Len(f.text) = Len(g.text)
    /\ \A i \in 1..Len(f.text) :
        /\ f.text[i][1] = g.text[i][1]
        /\ f.text[i][2].data = g.text[i][2].data
        /\ f.text[i][2].lastCached = g.text[i][2].lastCached
        /\ f.text[i][1] # u => f.text[i][2] = g.text[i][2]

\* C1: of two consecutive calls of one instance for the same URL, the first
\* starting from a persisted cache without an entry for it and returning
\* the provider's data, the first issues the one request, the second issues
\* none, returns the same data and changes nothing in the file but
\* lastRetrieved of that entry.
C1_SecondCallIsHit ==
    \A p \in Procs :
        Len(hist[p]) = 2 =>
            LET a == hist[p][1]
                b == hist[p][2]
            IN  (a.url = b.url /\ ~Has(Persisted(a.before), a.url) /\ a.ret.ok)
                => /\ a.reqs = 1
                   /\ b.reqs = 0
                   /\ a.reqs + b.reqs = 1
                   /\ b.ret = Returned(a.ret.data)
                   /\ b.before = a.after
                   /\ OnlyLastRetrievedChanged(b.before, b.after, a.url)
                   /\ Has(Persisted(b.after), a.url)

\* C1 witness: a miss that fetched, then a call for the same URL whose
\* clock reading moved lastRetrieved.
C1_Witness ==
    /\ Len(hist[1]) = 2
    /\ hist[1][1].url = hist[1][2].url
    /\ ~Has(Persisted(hist[1][1].before), hist[1][1].url)
    /\ hist[1][1].ret.ok
    /\ hist[1][1].resp = "ok"
    /\ hist[1][2].hit
    /\ hist[1][2].after # hist[1][2].before

\* C2: a miss answered with an unsuccessful status fails with the error
\* naming the URL and the status text, and the persisted mapping is the one
\* the call started from.
C2_FailedMissWritesNothing ==
    \A c \in Records :
        (~c.hit /\ c.resp = "notok")
        => /\ c.ret = Thrown(FetchFailure(c.url, c.st))
           /\ c.reqs = 1
           /\ Persisted(c.after) = Persisted(c.before)
           /\ Keys(Persisted(c.after)) = Keys(Persisted(c.before))
           /\ ~Has(Persisted(c.after), c.url)

\* C2 witness: a failed miss on a cache that already holds another entry.
C2_Witness ==
    \E c \in Records :
        /\ ~c.hit /\ c.resp = "notok" /\ c.st = "Forbidden"
        /\ Len(Persisted(c.before)) = 1
        /\ c.ret.err.url = c.url

\* C3: the instant nextSolarNoon returns is at or after its argument and
\* less than 24 hours after it.
C3_NextNoonWithinDay ==
    npc = "done" => (date <= noon /\ noon < date + DayMs)

\* C4 as amended: the shift is monotonic non-decreasing in the longitude,
\* and is 12 h at 180, -12 h at -180 and 0 at 0.
C4_OffsetNonDecreasing ==
    npc = "done"
    => /\ (prev.valid /\ prev.lon <= lon) => prev.off <= off
       /\ (prev.valid /\ prev.lon >= lon) => prev.off >= off
       /\ lon = East => off = HalfDayMs
       /\ lon = West => off = -HalfDayMs
       /\ lon = 0 => off = 0

\* C4 as stated: the shift is monotonic non-increasing in the longitude,
\* and is 12 h at 180, -12 h at -180 and 0 at 0.
C4_OffsetNonIncreasing ==
    npc = "done"
    => /\ (prev.valid /\ prev.lon <= lon) => prev.off >= off
       /\ lon = East => off = HalfDayMs
       /\ lon = West => off = -HalfDayMs
       /\ lon = 0 => off = 0

\* C4 witness: the call for 180 degrees follows the call for -180 degrees,
\* the shift going from -12 h to 12 h.
C4_Witness ==
    /\ npc = "done"
    /\ prev.valid /\ prev.lon = West /\ lon = East
    /\ prev.off = -HalfDayMs /\ off = HalfDayMs

\* The transitions of a table after instant t, and the j-th of them.
After(table, t) == {x \in table : x > t}
Nth(table, t, j) ==
    CHOOSE x \in After(table, t) :
        Cardinality({y \in After(table, t) : y < x}) = j - 1
Min2(k) == IF k < 2 THEN k ELSE 2

\* The table of the pair being reported.
CurTable == tzTable[locations[idx + 1].tz]

\* C5: futureTransitions holds the first transitions after now in time
\* order, without repetition, never more than two, and exactly
\* min(2, k) of them once the collection has stopped.
C5_FirstTwoTransitions ==
    rpc \in {"collect", "print"}
    => /\ Len(futureTransitions) <= Min2(Cardinality(After(CurTable, now)))
       /\ \A j \in 1..Len(futureTransitions) :
            futureTransitions[j] = Nth(CurTable, now, j)
       /\ \A j \in 1..(Len(futureTransitions) - 1) :
            futureTransitions[j] < futureTransitions[j + 1]
       /\ rpc = "print"
          => Len(futureTransitions) = Min2(Cardinality(After(CurTable, now)))

\* C5 witness: a table with a transition at now and three after it, of
\* which the first two were collected.
C5_Witness ==
    /\ rpc = "print"
    /\ now \in CurTable
    /\ Cardinality(After(CurTable, now)) = 3
    /\ Len(futureTransitions) = 2

\* The lines of block i, in the order printed.
KindCount(i, kind) ==
    Cardinality({j \in 1..Len(out) : out[j].blk = i /\ out[j].kind = kind})
FromLines(i) == SelectSeq(out, LAMBDA ln : ln.blk = i /\ ln.kind = "From")

\* C6: a printed block has one "no changes" line and no "From" line when
\* its zone has no transition after now, and otherwise no "no changes"
\* line and one "From" line for each of the first min(2, k) transitions,
\* in their order.
C6_NoChangeOrTransitions ==
    \A i \in 1..idx :
        LET table == tzTable[locations[i].tz]
            k == Cardinality(After(table, nows[i]))
        IN  IF k = 0
            THEN /\ KindCount(i, "No changes are scheduled") = 1
                 /\ KindCount(i, "From") = 0
            ELSE /\ KindCount(i, "No changes are scheduled") = 0
                 /\ KindCount(i, "From") = Min2(k)
                 /\ Len(FromLines(i)) = Min2(k)
                 /\ \A j \in 1..Len(FromLines(i)) :
                      FromLines(i)[j].at = Nth(table, nows[i], j)

\* C6 witness: a run that printed a block without transitions and then a
\* block with two.
C6_Witness ==
    /\ idx = 2
    /\ KindCount(1, "No changes are scheduled") = 1
    /\ KindCount(2, "From") = 2
    /\ locations[2].tz = "DST"

\* C7: with the file missing and the storage readable and writable,
\* loadCache writes the empty mapping, re-reads it once and returns the
\* empty mapping; no call ever ends with the file-not-found error, and the
\* file exists afterwards.
C7_MissingFileIsCreated ==
    /\ \A p \in Procs : ret[p].err.kind # "ENOENT"
    /\ \A p \in Procs :
        (cur[p].sawAbsent /\ pc[p] = "check" /\ readable /\ writable)
        => /\ cache[p] = <<>>
           /\ attempts[p] = 1
           /\ file = Compressed(<<>>)
    /\ \A c \in Records :
        (c.sawAbsent /\ readable /\ writable)
        => /\ ~c.before.exists
           /\ c.attempts = 1
           /\ c.after.exists /\ c.after.brotli /\ c.after.json
           /\ ~c.hit /\ c.reqs = 1
           /\ c.ret.err.kind # "ENOENT"

\* C7 witness: loadCache has just returned after creating the file.
C7_Witness ==
    /\ pc[1] = "check"
    /\ cur[1].sawAbsent
    /\ ~cur[1].before.exists
    /\ file.exists
    /\ cache[1] = <<>>

\* The call record c reached a saveCache of cachedFetch or of loadCache.
ReachedSave(c) == c.sawAbsent \/ c.hit \/ c.resp = "ok"

\* C8: a load that fails otherwise than by file-not-found ends the call with
\* that very error, without a request and with the file as it was; a failing
\* save ends the call with the write error and the file as it was; a call
\* that issued a request or returned had loaded a readable, decodable file.
C8_IOErrorsPropagate ==
    \A c \in Records :
        /\ (c.before.exists /\ ~readable)
           => c.ret = Thrown(EACCESRead) /\ c.after = c.before /\ c.reqs = 0
        /\ (c.before.exists /\ readable /\ ~c.before.brotli)
           => c.ret = Thrown(ZError) /\ c.after = c.before /\ c.reqs = 0
        /\ (c.before.exists /\ readable /\ c.before.brotli /\ ~c.before.json)
           => c.ret = Thrown(SyntaxErr) /\ c.after = c.before /\ c.reqs = 0
        /\ (~writable /\ ReachedSave(c))
           => c.ret = Thrown(EACCESWrite) /\ c.after = c.before
        /\ (c.sawAbsent /\ writable /\ ~readable)
           => c.ret = Thrown(EACCESRead) /\ c.reqs = 0
        /\ (c.ret.ok \/ c.reqs > 0) => (readable /\ c.after.brotli /\ c.after.json)

\* C8 witness: on a writable storage a call has ended with the decompression
\* error of a file that is no brotli stream, and the file is still that one.
C8_Witness ==
    \E c \in Records :
        /\ readable /\ writable
        /\ c.before = Garbage
        /\ c.ret = Thrown(ZError)
        /\ file = Garbage

\* The entry for u in the mapping file f persists, reduced to what never
\* changes: data and lastCached.
Stored(f, u) ==
    [data |-> Get(Persisted(f), u).data,
     lastCached |-> Get(Persisted(f), u).lastCached]

\* C9: an entry of the persisted cache stays in it with its data and its
\* lastCached in every step, and a call for a URL that has an entry issues
\* no request.
C9_EntriesArePermanent ==
    /\ [][\A u \in URLs :
            Has(Persisted(file), u)
            => Has(Persisted(file'), u) /\ Stored(file', u) = Stored(file, u)]_vars
    /\ [](\A c \in Records :
            (Has(Persisted(c.before), c.url) /\ readable) => c.hit /\ c.reqs = 0)

\* C9 witness: after a successful miss, a failed miss and a hit, the file
\* holds two entries, one of them older than the other.
C9_Witness ==
    /\ ncalls[1] = 3
    /\ pc[1] = "idle"
    /\ Len(Persisted(file)) = 2
    /\ hist[1][1].resp = "notok"
    /\ hist[1][2].hit
    /\ \E u \in URLs : Has(Persisted(file), u) /\ Stored(file, u).lastCached > 0

\* Every instance is between calls.
AllIdle == \A p \in Procs : pc[p] = "idle"
Other(p) == CHOOSE q \in Procs : q # p

\* C10: once both instances are done, the file is exactly the mapping the
\* last writer saved: its own entry is there, and the entry of the other
\* instance is there only if the last writer had loaded it.
C10_LastWriterWins ==
    (AllIdle /\ lastWriter # 0)
    => /\ file = Compressed(cache[lastWriter])
       /\ ret[lastWriter].ok => Has(Persisted(file), url[lastWriter])
       /\ \A u \in URLs : Has(Persisted(file), u) <=> Has(cache[lastWriter], u)

\* C10 witness: both instances fetched and saved different uncached URLs
\* and returned, and the file holds the entry of the last writer alone.
C10_LostUpdate ==
    /\ AllIdle
    /\ lastWriter # 0
    /\ url[1] # url[2]
    /\ \A p \in Procs :
        /\ ret[p].ok
        /\ Len(hist[p]) = 1
        /\ hist[p][1].resp = "ok"
        /\ hist[p][1].before = Compressed(<<>>)
    /\ Keys(Persisted(file)) = {url[lastWriter]}
    /\ ~Has(Persisted(file), url[Other(lastWriter)])

\* C16: for an instant at or after the epoch, the UTC time of day of the
\* instant nextSolarNoon returns is 12 h minus the shift, modulo 24 h, and
\* the instant is a whole number of days away from UTC midnight of the
\* argument's day + 12 h - shift.
C16_TimeOfDayIsNoonMinusShift ==
    (npc = "done" /\ date >= 0)
    => /\ noon % DayMs = (HalfDayMs - off) % DayMs
       /\ (noon - ((date - (date % DayMs)) + HalfDayMs - off)) % DayMs = 0

\* C16 witness: a call later in the day than that day's solar noon, for a
\* longitude with a shift that is no whole number of hours: the instant
\* returned lies on the next day.
C16_Witness ==
    /\ npc = "done"
    /\ date >= DayMs
    /\ off % 3600000 # 0
    /\ date % DayMs > HalfDayMs - off
    /\ noon - (noon % DayMs) = (date - (date % DayMs)) + DayMs

\* The entries of the mapping file f persists.
EntriesOf(f) == {Persisted(f)[i].value : i \in 1..Len(Persisted(f))}

\* C18: every entry of the persisted cache has lastCached <= lastRetrieved,
\* in no step does lastRetrieved of an entry decrease, and the entry a
\* successful miss stores carries two clock readings, the first of them in
\* lastCached, neither later than the clock.
C18_StampsAreOrdered ==
    /\ [](\A e \in EntriesOf(file) :
            e.lastCached <= e.lastRetrieved /\ e.lastRetrieved <= clock)
    /\ [][\A u \in URLs :
            Has(Persisted(file), u)
            => /\ Has(Persisted(file'), u)
               /\ Get(Persisted(file'), u).lastRetrieved
                    >= Get(Persisted(file), u).lastRetrieved]_vars
    /\ [](\A p \in Procs :
            pc[p] = "misssave"
            => /\ Get(cache[p], url[p]).lastCached
                    <= Get(cache[p], url[p]).lastRetrieved
               /\ Get(cache[p], url[p]).lastRetrieved = clock)

\* C18 witness: a miss has stored an entry whose lastRetrieved is the later
\* of two different readings, and a hit on an older entry has moved that
\* entry's lastRetrieved.
C18_Witness ==
    /\ Len(hist[1]) = 2
    /\ ~hist[1][1].hit /\ hist[1][1].ret.ok
    /\ Get(Persisted(hist[1][1].after), hist[1][1].url).lastCached
         < Get(Persisted(hist[1][1].after), hist[1][1].url).lastRetrieved
    /\ hist[1][2].hit /\ hist[1][2].ret.ok
    /\ hist[1][2].url # hist[1][1].url
    /\ Get(Persisted(file), hist[1][2].url).lastRetrieved
         > Get(Persisted(hist[1][2].before), hist[1][2].url).lastRetrieved

C17_AtMostOneReattempt == \A p \in Procs : attempts[p] <= 1

\* The hours h are the quotient lon / 15 degrees rounded to a nearest
\* integer, which lies in -12..12.
IsRoundedHours(h, n) ==
    /\ h \in -12..12
    /\ 2 * (n - h * 15 * LonDen) <= 15 * LonDen
    /\ 2 * (h * 15 * LonDen - n) <= 15 * LonDen
\* The characters sHH:00 for h hours, s being '-' for negative h only.
SignedLabel(h) ==
    <<IF h < 0 THEN "-" ELSE "+">>
    \o (IF h < 0 THEN PlainTimeString(-h, 0) ELSE PlainTimeString(h, 0))

C12_NoArgumentOnlyUsage ==
    /\ [](Len(argv) < 3
          => /\ mpc \in {"start", "exited"}
             /\ ncalls[1] = 0 /\ pc[1] = "idle" /\ cur[1].reqs = 0
             /\ lastWriter = 0
             /\ out = <<>>
             /\ mpc = "exited" => stderr = <<Usage>> /\ exitCode = 1)
    /\ [][Len(argv) < 3 => file' = file /\ pc' = pc /\ out' = out]_vars

\* C12 witness: a run without a location has exited, no cache file being
\* there before or after.
C12_Witness ==
    /\ Len(argv) = 2
    /\ mpc = "exited"
    /\ exitCode = 1
    /\ file = Absent
    /\ readable /\ writable

\* C14: no location with a NaN coordinate is handed to the time zone
\* lookup or makes it into the pairs that are reported.
C14_NaNIsRejected ==
    /\ \A i \in 1..Len(lookups) : lookups[i][1] # NaN /\ lookups[i][2] # NaN
    /\ \A i \in 1..Len(locations) :
          locations[i].location.lat # NaN /\ locations[i].location.lon # NaN

\* The zones the lookup named for the geocoded location l.
ZonesOf(l) ==
    IF l.lat = NaN \/ l.lon = NaN THEN <<>> ELSE geoTz[<<l.lat, l.lon>>]
\* The pairs of the locations before the j-th one.
RECURSIVE PairsBefore(_)
PairsBefore(j) ==
    IF j <= 1 THEN 0
    ELSE PairsBefore(j - 1) + Len(ZonesOf(geocoded[j - 1]))
\* The positions of stdout / stderr that hold a line of some kind.
OutAt(kind) == {i \in 1..Len(out) : out[i].kind = kind}
Optimal == "The optimal whole-hour UTC offset"

\* C15: a run that reports has one block per (location, time zone) pair,
\* the locations in provider order and the zones of each in lookup order;
\* a location without a zone has no block; a location with several zones
\* has one warning on stderr, one with a single zone none; there is one
\* blank line between two consecutive blocks and none elsewhere.
C15_OneBlockPerPair ==
    mpc = "done"
    => /\ Len(locations) = PairsBefore(Len(geocoded) + 1)
       /\ \A j \in 1..Len(geocoded) :
            /\ \A m \in 1..Len(ZonesOf(geocoded[j])) :
                 locations[PairsBefore(j) + m]
                   = [tz |-> ZonesOf(geocoded[j])[m], location |-> geocoded[j]]
            /\ Cardinality({i \in 1..Len(stderr) :
                    stderr[i].kind = "Warning: ambiguous time zones"
                    /\ stderr[i].lat = geocoded[j].lat
                    /\ stderr[i].lon = geocoded[j].lon})
                 = IF Len(ZonesOf(geocoded[j])) > 1 THEN 1 ELSE 0
       /\ Len(stderr)
            = Cardinality({j \in 1..Len(geocoded) :
                               Len(ZonesOf(geocoded[j])) > 1})
       /\ \A k \in 1..Len(locations) :
            /\ Cardinality({i \in OutAt("Location") : out[i].blk = k}) = 1
            /\ Cardinality({i \in OutAt(Optimal) : out[i].blk = k}) = 1
       /\ \A i \in OutAt("Location") \cup OutAt(Optimal) :
            out[i].blk \in 1..Len(locations)
       /\ \A i \in 1..(Len(out) - 1) : out[i].blk <= out[i + 1].blk
       /\ Cardinality(OutAt("")) = IF locations = <<>> THEN 0
                                   ELSE Len(locations) - 1
       /\ \A i \in OutAt("") :
            /\ 1 < i /\ i < Len(out)
            /\ out[i - 1].kind = Optimal
            /\ out[i + 1].kind = "Location"
            /\ out[i + 1].blk = out[i - 1].blk + 1
       /\ \A i \in OutAt("Location") : i > 1 => out[i - 1].kind = ""
       /\ exitCode = 0

\* C15 witness: the provider gave two locations, the first in two zones,
\* the second in one: three blocks, one warning, two blank lines.
C15_Witness ==
    /\ mpc = "done"
    /\ Len(geocoded) = 2
    /\ Len(ZonesOf(geocoded[1])) = 2
    /\ Len(ZonesOf(geocoded[2])) = 1
    /\ Len(locations) = 3
    /\ Len(stderr) = 1
    /\ Cardinality(OutAt("")) = 2

====
